---- MODULE Spec2Model ----
(***************************************************************************)
(* Playback supervision engine of the single-zone video player:            *)
(*   - the stream watchdog's control loop (src/src/stream_watchdog.py)     *)
(*   - the VideoPlayer supervisor (src/src/video_player.py)                *)
(* Time is counted in whole seconds, positions in units of 0.05 s.  The    *)
(* watchdog reads the wall clock only to compare it with the timestamps it *)
(* stored, so the clock's origin is moved to the start of every iteration  *)
(* of its loop: time.time() reads Clock there, and stored timestamps are    *)
(* re-expressed against the new origin when time passes (Elapse).          *)
(***************************************************************************)
EXTENDS Integers, Sequences, FiniteSets, TLC

(***************************************************************************)
(* Bounds of the model                                                     *)
(***************************************************************************)
\* 'stopped' observations are explored while consecutive_failures is below
MaxFailures == 5
\* the history counter of restart commands saturates at
MaxCounted == 4
\* concurrent requests spawn player processes while fewer than this many
\* live ones are no longer referred to
MaxOrphans == 2

(***************************************************************************)
(* Constants of stream_watchdog.py                                         *)
(***************************************************************************)
CHECK_INTERVAL == 5
FREEZE_THRESHOLD == 15
MAX_RESTART_ATTEMPTS == 3
BACKOFF_TIME == 60
\* position_delta < 0.1, in units of 0.05 s
FREEZE_EPSILON == 2
\* consecutive_failures >= 2
FAILURE_THRESHOLD == 2
\* time.sleep(2) in kill_mpv
KILL_SETTLE == 2
\* time.sleep(5) after a successful restart, time.sleep(10) after a failed one
RESTART_OK_SLEEP == 5
RESTART_FAIL_SLEEP == 10
\* defaults of status.get('position', 0), main()'s last_volume = 50
DEFAULT_POSITION == 0
DEFAULT_VOLUME == 50

\* time.time() at the top of a loop iteration
Clock == 0

\* Python's None for a float (last_position, last_position_time,
\* backoff_until); a float v is <<v>>
None == << >>
Some(v) == <<v>>
Val(opt) == opt[1]
\* Python's None for a source
NoSource == "None"

Max(a, b) == IF a > b THEN a ELSE b
Min(a, b) == IF a < b THEN a ELSE b
Abs(x) == IF x < 0 THEN -x ELSE x

(***************************************************************************)
(* Sources, as the strings the API carries                                 *)
(***************************************************************************)
RtspSource == "rtsp://cam/1"
HttpSource == "http://host/v.mp4"
LocalSource == "/opt/rpi-video-player/data/videos/a.mp4"

\* str.startswith
StartsWith(s, prefix) ==
    /\ Len(s) >= Len(prefix)
    /\ SubSeq(s, 1, Len(prefix)) = prefix

\* mutant: every non-empty source is monitored
is_rtsp_stream_AnySource(source) ==
    /\ source # NoSource
    /\ source # ""

\* is_rtsp_stream: source and source.startswith('rtsp://')
is_rtsp_stream(source) ==
    /\ source # NoSource
    /\ source # ""
    /\ StartsWith(source, "rtsp://")

(***************************************************************************)
(* State                                                                   *)
(***************************************************************************)
VARIABLES
    \* locals of stream_watchdog.main
    last_source, last_loop, last_volume, last_position, last_position_time,
    consecutive_failures, restart_attempts, in_backoff, backoff_until,
    \* what the last loop iteration read (status response, liveness probe,
    \* outcome of the restart request), the commands it issued, the restart
    \* reason it logged and the seconds it took
    obs, wd_cmds, wd_reason, wd_elapsed,
    \* history: restart commands issued since the last cooldown entry or
    \* healthy-progress observation; the current run of consecutive polls
    \* observing 'stopped' (counted from consecutive_failures = 0) and the
    \* restart commands issued in it
    restartsNoProgress, stoppedRun, stoppedRunRestarts,
    \* history: seconds slept since the cooldown window was entered; whether
    \* every status query so far observed the monitored source 'playing'
    \* with the player process alive
    sinceBackoffEntry, onlyPlayingAlive,
    \* history: the current span of consecutive polls that all observed
    \* 'playing' with the process alive and raised no trigger, as <<lowest
    \* position, highest position, seconds since its first poll>> (None when
    \* the last iteration was no such poll); the seconds for which the
    \* monitored session has last been observed 'paused' or not observed at
    \* all (failed query, cooldown window) since it was observed 'playing',
    \* -1 after any other observation
    nearSpan, gapTime

wdVars == <<last_source, last_loop, last_volume, last_position,
            last_position_time, consecutive_failures, restart_attempts,
            in_backoff, backoff_until, obs, wd_cmds, wd_reason, wd_elapsed,
            restartsNoProgress, stoppedRun, stoppedRunRestarts,
            sinceBackoffEntry, onlyPlayingAlive, nearSpan, gapTime>>

VARIABLES
    \* VideoPlayer.state, VideoPlayer.geometry
    state, geometry,
    \* VideoPlayer.process: "None", or the Popen object of the last spawned
    \* player process, "alive" or "dead" (poll() is None or not)
    process,
    \* player processes the supervisor spawned that are still alive and that
    \* VideoPlayer.process no longer refers to
    orphans,
    \* whether a file exists at VideoPlayer.socket_path
    socket_exists,
    \* the last supervisor operation (or event of the player process), its
    \* arguments and result, the commands it handed to _send_command and the
    \* changes of state['status'] it made, each with the method that made it
    last_op, sent, status_writes

plVars == <<state, geometry, process, orphans, socket_exists, last_op, sent,
            status_writes>>

VARIABLES
    \* the API requests being served, one per thread of the threaded Flask
    \* server: the step of play() or stop() each has reached and its locals
    requests

apiVars == <<requests>>

vars == <<wdVars, plVars, apiVars>>

(***************************************************************************)
(* Status responses the watchdog can read from GET /api/status             *)
(***************************************************************************)
Statuses == {"stopped", "playing", "paused"}
ObservedPositions == {0, 1, 3}
ObservedSettings == {[loop |-> TRUE, volume |-> 50], [loop |-> FALSE, volume |-> 80]}
NotMonitoredSources == {LocalSource, HttpSource, NoSource}

\* an iteration that stayed in the backoff window and queried nothing
NotPolled == [kind |-> "skipped"]
\* get_status() returned None
NoResponse == [kind |-> "none"]

Response(st, src, pos, set) ==
    [kind |-> "status", status |-> st, source |-> src, position |-> pos,
     loop |-> set.loop, volume |-> set.volume]

\* a monitored source: the position is read only when the status is 'playing'
MonitoredResponses ==
    {Response("playing", RtspSource, pos, set) :
        pos \in ObservedPositions, set \in ObservedSettings}
    \cup
    {Response(st, RtspSource, DEFAULT_POSITION, set) :
        st \in {"stopped", "paused"}, set \in ObservedSettings}

\* any other source: only the source is read
NotMonitoredResponses ==
    {Response(st, src, DEFAULT_POSITION, [loop |-> TRUE, volume |-> DEFAULT_VOLUME]) :
        st \in Statuses, src \in NotMonitoredSources}

Responses == MonitoredResponses \cup NotMonitoredResponses

(***************************************************************************)
(* The passage of time                                                     *)
(***************************************************************************)
\* last_position_time after d seconds: only current_time - last_position_time
\* >= FREEZE_THRESHOLD is ever read, so older timestamps are kept at the
\* threshold
ElapsePositionTime(t, d) ==
    IF t = None THEN None ELSE Some(Max(Val(t) - d, Clock - FREEZE_THRESHOLD))

\* backoff_until after d seconds: only time.time() < backoff_until is ever
\* read, so an elapsed deadline is kept at the clock
ElapseDeadline(t, d) ==
    IF t = None THEN None ELSE Some(Max(Val(t) - d, Clock))

(***************************************************************************)
(* stream_watchdog.main: one iteration of the while loop                   *)
(***************************************************************************)
\* mutant: the comparison with the deadline is inverted
InBackoffWindow_Inverted ==
    /\ in_backoff
    /\ backoff_until # None
    /\ Clock > Val(backoff_until)

\* line 107-108: in the backoff window and the window has not elapsed
InBackoffWindow ==
    /\ in_backoff
    /\ backoff_until # None
    /\ Clock < Val(backoff_until)

\* lines 111-114: the window has elapsed, backoff is left
LeavingBackoff ==
    /\ in_backoff
    /\ backoff_until # None
    /\ ~InBackoffWindow

Monitored(resp) ==
    /\ resp.kind = "status"
    /\ is_rtsp_stream(resp.source)

\* mutant: the elapsed time is not compared with the threshold
Frozen_NoThreshold(resp) ==
    /\ last_position # None
    /\ last_position_time # None
    /\ Abs(resp.position - Val(last_position)) < FREEZE_EPSILON

\* lines 148-153: position unchanged (within epsilon) for FREEZE_THRESHOLD
Frozen(resp) ==
    /\ last_position # None
    /\ last_position_time # None
    /\ Abs(resp.position - Val(last_position)) < FREEZE_EPSILON
    /\ Clock - Val(last_position_time) >= FREEZE_THRESHOLD

\* mutant: the threshold is compared with > instead of >=
StoppedThresholdReached_Late(failures) == failures > FAILURE_THRESHOLD

\* line 138: restart after 2 checks
StoppedThresholdReached(failures) == failures >= FAILURE_THRESHOLD

\* mutant: the frozen check comes before the liveness probe
FailureClass_FrozenFirst(resp, alive) ==
    IF resp.status = "stopped" THEN "stopped"
    ELSE IF resp.status = "playing" /\ Frozen(resp) THEN "frozen"
    ELSE IF resp.status = "playing" /\ ~alive THEN "died"
    ELSE ""

\* lines 134-155: the failure class of a monitored observation, first match
\* wins; "" when none
FailureClass(resp, alive) ==
    IF resp.status = "stopped" THEN "stopped"
    ELSE IF resp.status = "playing" /\ ~alive THEN "died"
    ELSE IF resp.status = "playing" /\ Frozen(resp) THEN "frozen"
    ELSE ""

\* lines 131-155: needs_restart
NeedsRestart(resp, alive) ==
    LET class == FailureClass(resp, alive) IN
    IF class = "stopped"
    THEN StoppedThresholdReached(consecutive_failures + 1)
    ELSE class # ""

\* lines 157-161: the position changed, tracking is updated
PositionChanged(resp, alive) ==
    /\ resp.status = "playing"
    /\ alive
    /\ Some(resp.position) # last_position

\* mutant: the cap is compared with > instead of >=
AtRestartCap_OffByOne(attempts) == attempts > MAX_RESTART_ATTEMPTS

\* line 168: the cap on restart attempts is reached
AtRestartCap(attempts) == attempts >= MAX_RESTART_ATTEMPTS

\* restart_attempts after lines 107-114
AttemptsAfterBackoffCheck == IF LeavingBackoff THEN 0 ELSE restart_attempts

\* the iteration issues a restart (lines 175-176)
IssuesRestart(resp, alive) ==
    /\ Monitored(resp)
    /\ NeedsRestart(resp, alive)
    /\ ~AtRestartCap(AttemptsAfterBackoffCheck)

\* is_mpv_running() is consulted only for a monitored 'playing' observation
ProbeOutcomes(resp) ==
    IF Monitored(resp) /\ resp.status = "playing" THEN BOOLEAN ELSE {TRUE}

\* restart_stream() returns True or False (HTTP 200 or not, or an exception)
RestartOutcomes(resp, alive) ==
    IF IssuesRestart(resp, alive) THEN BOOLEAN ELSE {TRUE}

\* mutant: restart_stream is called with the source only, loop and volume
\* take the defaults of its signature
RestartCommands_Defaults(source, loop, volume) ==
    << [op |-> "kill"],
       [op |-> "play", source |-> source, loop |-> TRUE, volume |-> DEFAULT_VOLUME] >>

\* kill_mpv() and the POST /api/play of restart_stream (lines 72-79)
RestartCommands(source, loop, volume) ==
    << [op |-> "kill"],
       [op |-> "play", source |-> source, loop |-> loop, volume |-> volume] >>

\* status 'playing', process alive, position advanced
HealthyProgress(resp, alive) ==
    /\ Monitored(resp)
    /\ PositionChanged(resp, alive)

\* gapTime after d more seconds without an observation of 'playing'
GapAfter(d) ==
    IF gapTime < 0 THEN gapTime ELSE Min(gapTime + d, FREEZE_THRESHOLD)

\* the span of 'playing' polls with the poll at position pos added: the
\* running span while the positions stay within FREEZE_EPSILON of each
\* other, a new span otherwise
SpanWith(pos) ==
    IF /\ nearSpan # None
       /\ Max(nearSpan[2], pos) - Min(nearSpan[1], pos) < FREEZE_EPSILON
    THEN <<Min(nearSpan[1], pos), Max(nearSpan[2], pos), nearSpan[3]>>
    ELSE <<pos, pos, 0>>

\* mutant: the wait in the backoff window pushes the deadline back
BackoffWait_Rearm ==
    /\ InBackoffWindow
    /\ obs' = [poll |-> NotPolled, alive |-> TRUE, ok |-> TRUE]
    /\ wd_cmds' = << >>
    /\ wd_reason' = ""
    /\ wd_elapsed' = CHECK_INTERVAL
    /\ last_position_time' = ElapsePositionTime(last_position_time, CHECK_INTERVAL)
    /\ backoff_until' = Some(Clock + BACKOFF_TIME)
    /\ sinceBackoffEntry' = Min(sinceBackoffEntry + CHECK_INTERVAL, BACKOFF_TIME)
    /\ nearSpan' = None
    /\ gapTime' = GapAfter(CHECK_INTERVAL)
    /\ UNCHANGED <<plVars, apiVars>>
    /\ UNCHANGED <<last_source, last_loop, last_volume, last_position,
                   consecutive_failures, restart_attempts, in_backoff,
                   restartsNoProgress, stoppedRun, stoppedRunRestarts,
                   onlyPlayingAlive>>

\* lines 107-110: still in the backoff window: sleep and continue
BackoffWait ==
    /\ InBackoffWindow
    /\ obs' = [poll |-> NotPolled, alive |-> TRUE, ok |-> TRUE]
    /\ wd_cmds' = << >>
    /\ wd_reason' = ""
    /\ wd_elapsed' = CHECK_INTERVAL
    /\ last_position_time' = ElapsePositionTime(last_position_time, CHECK_INTERVAL)
    /\ backoff_until' = ElapseDeadline(backoff_until, CHECK_INTERVAL)
    /\ sinceBackoffEntry' = sinceBackoffEntry + CHECK_INTERVAL
    /\ nearSpan' = None
    /\ gapTime' = GapAfter(CHECK_INTERVAL)
    /\ UNCHANGED <<plVars, apiVars>>
    /\ UNCHANGED <<last_source, last_loop, last_volume, last_position,
                   consecutive_failures, restart_attempts, in_backoff,
                   restartsNoProgress, stoppedRun, stoppedRunRestarts,
                   onlyPlayingAlive>>

\* lines 116-122, 199-200: get_status() failed
PollNoResponse ==
    /\ in_backoff' = (in_backoff /\ ~LeavingBackoff)
    /\ restart_attempts' = AttemptsAfterBackoffCheck
    /\ wd_cmds' = << >>
    /\ wd_reason' = ""
    /\ wd_elapsed' = CHECK_INTERVAL
    /\ last_position_time' = ElapsePositionTime(last_position_time, CHECK_INTERVAL)
    /\ backoff_until' = ElapseDeadline(backoff_until, CHECK_INTERVAL)
    /\ stoppedRun' = 0
    /\ stoppedRunRestarts' = 0
    /\ sinceBackoffEntry' = 0
    /\ nearSpan' = None
    /\ gapTime' = GapAfter(CHECK_INTERVAL)
    /\ UNCHANGED <<last_source, last_loop, last_volume, last_position,
                   consecutive_failures, restartsNoProgress>>

\* lines 190-198: not an RTSP stream, reset tracking
PollNotMonitored ==
    /\ last_source' = NoSource
    /\ last_position' = None
    /\ last_position_time' = None
    /\ consecutive_failures' = 0
    /\ restart_attempts' = 0
    /\ in_backoff' = (in_backoff /\ ~LeavingBackoff)
    /\ wd_cmds' = << >>
    /\ wd_reason' = ""
    /\ wd_elapsed' = CHECK_INTERVAL
    /\ backoff_until' = ElapseDeadline(backoff_until, CHECK_INTERVAL)
    /\ restartsNoProgress' = 0
    /\ stoppedRun' = 0
    /\ stoppedRunRestarts' = 0
    /\ sinceBackoffEntry' = 0
    /\ nearSpan' = None
    /\ gapTime' = -1
    /\ UNCHANGED <<last_loop, last_volume>>

\* lines 125-188: a monitored (rtsp://) observation
PollMonitored(resp, alive, ok) ==
    LET class == FailureClass(resp, alive)
        needs == NeedsRestart(resp, alive)
        attempts == AttemptsAfterBackoffCheck
        restart == IssuesRestart(resp, alive)
        changed == PositionChanged(resp, alive)
        \* lines 136, 161
        failures == IF class = "stopped" THEN consecutive_failures + 1
                    ELSE IF changed THEN 0
                    ELSE consecutive_failures
        \* lines 158-160
        pos == IF changed THEN Some(resp.position) ELSE last_position
        posTime == IF changed THEN Some(Clock) ELSE last_position_time
        \* line 173 (continue), lines 60, 180, 183, 200
        elapsed == IF needs /\ AtRestartCap(attempts) THEN 0
                   ELSE IF needs /\ ok
                   THEN KILL_SETTLE + RESTART_OK_SLEEP + CHECK_INTERVAL
                   ELSE IF needs
                   THEN KILL_SETTLE + RESTART_FAIL_SLEEP + CHECK_INTERVAL
                   ELSE CHECK_INTERVAL
        progress == HealthyProgress(resp, alive)
        run == IF class # "stopped" THEN 0
               ELSE IF stoppedRun \in {1, 2} THEN stoppedRun + 1
               ELSE IF consecutive_failures = 0 THEN 1
               ELSE 0
        runRestarts == IF run = 0 THEN 0
                       ELSE (IF run = 1 THEN 0 ELSE stoppedRunRestarts)
                            + (IF restart THEN 1 ELSE 0)
    IN
    /\ last_source' = resp.source
    /\ last_loop' = resp.loop
    /\ last_volume' = resp.volume
    /\ wd_reason' = IF needs THEN class ELSE ""
    /\ wd_elapsed' = elapsed
    /\ stoppedRun' = run
    /\ stoppedRunRestarts' = runRestarts
    /\ sinceBackoffEntry' = 0
    /\ nearSpan' = IF resp.status = "playing" /\ alive /\ ~needs
                   THEN [SpanWith(resp.position) EXCEPT
                            ![3] = Min(@ + elapsed, FREEZE_THRESHOLD)]
                   ELSE None
    /\ gapTime' = IF resp.status = "playing" THEN 0
                  ELSE IF resp.status = "paused" THEN GapAfter(elapsed)
                  ELSE -1
    /\ IF needs /\ AtRestartCap(attempts)
       THEN \* lines 168-173: enter the cooldown window, continue
            /\ in_backoff' = TRUE
            /\ backoff_until' = ElapseDeadline(Some(Clock + BACKOFF_TIME), elapsed)
            /\ restart_attempts' = 0
            /\ consecutive_failures' = failures
            /\ last_position' = pos
            /\ last_position_time' = ElapsePositionTime(posTime, elapsed)
            /\ wd_cmds' = << >>
            /\ restartsNoProgress' = 0
       ELSE IF needs
       THEN \* lines 175-183: restart
            /\ in_backoff' = (in_backoff /\ ~LeavingBackoff)
            /\ backoff_until' = ElapseDeadline(backoff_until, elapsed)
            /\ restart_attempts' = attempts + 1
            /\ wd_cmds' = RestartCommands(resp.source, resp.loop, resp.volume)
            /\ restartsNoProgress' =
                   Min((IF progress THEN 0 ELSE restartsNoProgress) + 1, MaxCounted)
            /\ IF ok
               THEN /\ consecutive_failures' = 0
                    /\ last_position' = None
                    /\ last_position_time' = None
               ELSE /\ consecutive_failures' = failures
                    /\ last_position' = pos
                    /\ last_position_time' = ElapsePositionTime(posTime, elapsed)
       ELSE \* lines 184-188: no restart needed
            /\ in_backoff' = (in_backoff /\ ~LeavingBackoff)
            /\ backoff_until' = ElapseDeadline(backoff_until, elapsed)
            /\ restart_attempts' = IF attempts > 0 THEN 0 ELSE attempts
            /\ consecutive_failures' = failures
            /\ last_position' = pos
            /\ last_position_time' = ElapsePositionTime(posTime, elapsed)
            /\ wd_cmds' = << >>
            /\ restartsNoProgress' = IF progress THEN 0 ELSE restartsNoProgress

\* lines 104-200: one iteration that queries the status
Poll ==
    /\ ~InBackoffWindow
    /\ UNCHANGED <<plVars, apiVars>>
    /\ \E resp \in Responses \cup {NoResponse} :
         \E alive \in ProbeOutcomes(resp) :
           \E ok \in RestartOutcomes(resp, alive) :
             /\ Monitored(resp) /\ resp.status = "stopped"
                   => consecutive_failures < MaxFailures
             /\ obs' = [poll |-> resp, alive |-> alive, ok |-> ok]
             /\ onlyPlayingAlive' =
                   /\ onlyPlayingAlive
                   /\ Monitored(resp)
                   /\ resp.status = "playing"
                   /\ alive
             /\ IF resp = NoResponse THEN PollNoResponse
                ELSE IF Monitored(resp) THEN PollMonitored(resp, alive, ok)
                ELSE PollNotMonitored

\* lines 94-102
WatchdogInit ==
    /\ last_source = NoSource
    /\ last_loop = TRUE
    /\ last_volume = DEFAULT_VOLUME
    /\ last_position = None
    /\ last_position_time = None
    /\ consecutive_failures = 0
    /\ restart_attempts = 0
    /\ in_backoff = FALSE
    /\ backoff_until = None
    /\ obs = [poll |-> NotPolled, alive |-> TRUE, ok |-> TRUE]
    /\ wd_cmds = << >>
    /\ wd_reason = ""
    /\ wd_elapsed = 0
    /\ restartsNoProgress = 0
    /\ stoppedRun = 0
    /\ stoppedRunRestarts = 0
    /\ sinceBackoffEntry = 0
    /\ onlyPlayingAlive = TRUE
    /\ nearSpan = None
    /\ gapTime = -1

(***************************************************************************)
(* video_player.py: the VideoPlayer supervisor.  Its methods are functions *)
(* of the player p = [state, geometry, process, orphans, socket, sent,     *)
(* writes].                                                                *)
(***************************************************************************)
\* VideoPlayer.video_dir and the files in it (and one file outside it)
VIDEO_DIR == "/opt/rpi-video-player/data/videos"
ExistingPaths == {LocalSource, "/media/usb/b.mp4"}

\* sources an API request can name
HttpsSource == "https://host/v.mp4"
PlaySources ==
    {RtspSource, HttpsSource, "a.mp4", "missing.mp4", "/media/usb/b.mp4"}

VolumeInputs == {-1, 50, 101}
\* the loop and volume arguments of a play request (None: not given)
PlaySettings ==
    {[loop |-> None, volume |-> None],
     [loop |-> Some(TRUE), volume |-> Some(50)],
     [loop |-> Some(FALSE), volume |-> Some(101)]}
Geometries ==
    {[x |-> 0, y |-> 0, width |-> 1920, height |-> 1080],
     [x |-> 100, y |-> 50, width |-> 640, height |-> 480]}
\* values the player process reports for time-pos and duration
ReportedPositions == {3}
ReportedDurations == {9}

\* pathlib: video_dir / source (an absolute source replaces the directory)
JoinPath(dir, source) ==
    IF StartsWith(source, "/") THEN source ELSE dir \o "/" \o source

\* lines 89: source.startswith(('rtsp://', 'http://', 'https://'))
IsRemote(source) ==
    \/ StartsWith(source, "rtsp://")
    \/ StartsWith(source, "http://")
    \/ StartsWith(source, "https://")

\* _send_command (lines 282-314): the command is written to the socket when
\* the socket file exists; the reply is None when it does not, or on any
\* channel failure
SendCommand(p, command) == [p EXCEPT !.sent = Append(@, command)]
Reply(p, ipc, data) ==
    IF p.socket /\ ipc THEN Some(data) ELSE None

\* self.state["status"] = to, in method by: p.writes with the change added
StatusWrites(p, to, by) ==
    IF p.state.status # to
    THEN Append(p.writes, [from |-> p.state.status, to |-> to, by |-> by])
    ELSE p.writes

\* mutant: stop() leaves the source in place
stop_KeepSource(p) ==
    [p EXCEPT !.process = IF @ = "alive" THEN "dead" ELSE @,
              !.state = [@ EXCEPT !.status = "stopped",
                                  !.position = 0,
                                  !.duration = 0],
              !.writes = StatusWrites(p, "stopped", "stop"),
              !.socket = FALSE]

\* mutant: stop() does not remove the control socket
stop_KeepSocket(p) ==
    [p EXCEPT !.process = IF @ = "alive" THEN "dead" ELSE @,
              !.state = [@ EXCEPT !.status = "stopped",
                                  !.source = NoSource,
                                  !.position = 0,
                                  !.duration = 0],
              !.writes = StatusWrites(p, "stopped", "stop")]

\* stop (lines 197-215)
stop(p) ==
    [p EXCEPT
        \* lines 199-204: terminate, wait, kill
        !.process = IF @ = "alive" THEN "dead" ELSE @,
        \* lines 208-211
        !.state = [@ EXCEPT !.status = "stopped",
                            !.source = NoSource,
                            !.position = 0,
                            !.duration = 0],
        !.writes = StatusWrites(p, "stopped", "stop"),
        \* lines 214-215
        !.socket = FALSE]

\* seek (lines 228-231)
seek(p, position) ==
    SendCommand(p, [command |-> <<"seek", position, "absolute">>])

\* pause (lines 217-226)
pause(p) ==
    IF p.state.status = "playing"
    THEN [SendCommand(p, [command |-> <<"set_property", "pause", TRUE>>])
            EXCEPT !.state.status = "paused",
                   !.writes = StatusWrites(p, "paused", "pause")]
    ELSE IF p.state.status = "paused"
    THEN [SendCommand(p, [command |-> <<"set_property", "pause", FALSE>>])
            EXCEPT !.state.status = "playing",
                   !.writes = StatusWrites(p, "playing", "pause")]
    ELSE p

\* lines 107-111: Popen.  A player process that is still alive when the new
\* one is spawned is no longer referred to by anything.
Spawn(p) ==
    [p EXCEPT !.orphans = IF p.process = "alive" THEN @ + 1 ELSE @,
              !.process = "alive"]

\* mutant: play() spawns without stopping the running process
StopExisting_Skip(p) == p

\* lines 95-98: stop any existing playback
StopExisting(p) == IF p.process = "alive" THEN stop(p) ELSE p

\* mutant: play() stores the source as given
ResolveSource_AsGiven(source) == source

\* lines 89-93: the full path of a local file
ResolveSource(source) ==
    IF IsRemote(source) THEN source ELSE JoinPath(VIDEO_DIR, source)

\* play (lines 79-133).  launch is what the spawned process does during the
\* bounded wait: "socket" (it creates the control socket), "nosocket" (it
\* runs but creates none in time) or "exits" (it exits at once).
play(p, source, loop, volume, seek_to, launch) ==
    LET \* lines 83-86
        p1 == [p EXCEPT !.state.loop = IF loop = None THEN @ ELSE Val(loop),
                        !.state.volume = IF volume = None THEN @ ELSE Val(volume)]
        missing == ~IsRemote(source) /\ JoinPath(VIDEO_DIR, source) \notin ExistingPaths
        resolved == ResolveSource(source)
        p2 == StopExisting(p1)
        p3 == Spawn(p2)
        \* lines 113-118: a socket file left behind counts as well
        p4 == [p3 EXCEPT !.socket = @ \/ launch = "socket",
                         !.process = IF launch = "exits" THEN "dead" ELSE @]
        p5 == [p4 EXCEPT !.state.status = "playing",
                         !.state.source = resolved,
                         !.writes = StatusWrites(p4, "playing", "play")]
        p6 == IF seek_to # None /\ Val(seek_to) > 0
              THEN seek(p5, Val(seek_to)) ELSE p5
    IN
    IF missing THEN [p |-> p1, result |-> "FileNotFoundError"]
    ELSE IF p4.socket THEN [p |-> p6, result |-> "True"]
    \* lines 131-133: the state is left as it is
    ELSE [p |-> p4, result |-> "False"]

\* get_playback_position (lines 245-253) and get_duration (lines 255-263)
get_property(reply) == IF reply # None THEN Val(reply) ELSE 0

\* mutant: set_volume stores and forwards the volume as given
set_volume_Unclamped(p, volume) ==
    SendCommand([p EXCEPT !.state.volume = volume],
                [command |-> <<"set_property", "volume", volume>>])

\* set_volume (lines 238-243)
set_volume(p, volume) ==
    LET v == Max(0, Min(100, volume)) IN
    SendCommand([p EXCEPT !.state.volume = v],
                [command |-> <<"set_property", "volume", v>>])

\* get_status (lines 265-280)
get_status(p, posReply, durReply) ==
    IF p.state.status \in {"playing", "paused"}
    THEN LET q == SendCommand(SendCommand(p,
                    [command |-> <<"get_property", "time-pos">>]),
                    [command |-> <<"get_property", "duration">>])
         IN [q EXCEPT !.state.position = get_property(posReply),
                      !.state.duration = get_property(durReply)]
    ELSE p

\* mutant: set_geometry stores the geometry only while a session is active
set_geometry_OnlyWhenActive(p, g, posReply, launch) ==
    IF p.state.status \in {"playing", "paused"}
    THEN LET p1 == [p EXCEPT !.geometry = g]
             current_position == get_property(posReply)
             p2 == SendCommand(p1, [command |-> <<"get_property", "time-pos">>])
             r == play(stop(p2), p1.state.source, None, None,
                       Some(current_position), launch)
             done == IF r.result # "FileNotFoundError" /\ p.state.status = "paused"
                     THEN pause(r.p) ELSE r.p
         IN [p |-> done,
             result |-> IF r.result = "FileNotFoundError" THEN r.result ELSE "None",
             position |-> Some(current_position), played |-> r.result]
    ELSE [p |-> p, result |-> "None", position |-> None, played |-> "None"]

\* mutant: set_geometry does not pause the restarted player again
set_geometry_NoRepause(p, g, posReply, launch) ==
    LET p1 == [p EXCEPT !.geometry = g] IN
    IF p1.state.status \in {"playing", "paused"}
    THEN LET current_position == get_property(posReply)
             p2 == SendCommand(p1, [command |-> <<"get_property", "time-pos">>])
             r == play(stop(p2), p1.state.source, None, None,
                       Some(current_position), launch)
         IN [p |-> r.p,
             result |-> IF r.result = "FileNotFoundError" THEN r.result ELSE "None",
             position |-> Some(current_position), played |-> r.result]
    ELSE [p |-> p1, result |-> "None", position |-> None, played |-> "None"]

\* set_geometry (lines 55-77)
set_geometry(p, g, posReply, launch) ==
    LET p1 == [p EXCEPT !.geometry = g] IN
    IF p1.state.status \in {"playing", "paused"}
    THEN LET current_source == p1.state.source
             p2 == SendCommand(p1, [command |-> <<"get_property", "time-pos">>])
             current_position == get_property(posReply)
             was_paused == p1.state.status = "paused"
             p3 == stop(p2)
             r == play(p3, current_source, None, None, Some(current_position), launch)
             done == IF r.result # "FileNotFoundError" /\ was_paused
                     THEN pause(r.p) ELSE r.p
         IN [p |-> done,
             result |-> IF r.result = "FileNotFoundError" THEN r.result ELSE "None",
             position |-> Some(current_position), played |-> r.result]
    ELSE [p |-> p1, result |-> "None", position |-> None, played |-> "None"]

(***************************************************************************)
(* Supervisor operations as actions, invoked one at a time                 *)
(***************************************************************************)
Player ==
    [state |-> state, geometry |-> geometry, process |-> process,
     orphans |-> orphans, socket |-> socket_exists, sent |-> << >>,
     writes |-> << >>]

Commit(p) ==
    /\ state' = p.state
    /\ geometry' = p.geometry
    /\ process' = p.process
    /\ orphans' = p.orphans
    /\ socket_exists' = p.socket
    /\ sent' = p.sent
    /\ status_writes' = p.writes

LaunchOutcomes == {"socket", "nosocket", "exits"}
\* the reply to a property query: a value, or None
Replies(p, S) == {Reply(p, ipc, d) : ipc \in BOOLEAN, d \in S}

Play ==
    \E source \in PlaySources, set \in PlaySettings, launch \in LaunchOutcomes :
        LET r == play(Player, source, set.loop, set.volume, None, launch) IN
        /\ r.result = "FileNotFoundError" => launch = "socket"
        /\ Commit(r.p)
        /\ last_op' = [op |-> "play", source |-> source, result |-> r.result,
                       launch |-> IF r.result = "FileNotFoundError"
                                  THEN "none" ELSE launch]
        /\ UNCHANGED <<wdVars, apiVars>>

Stop ==
    /\ Commit(stop(Player))
    /\ last_op' = [op |-> "stop", result |-> "None"]
    /\ UNCHANGED <<wdVars, apiVars>>

Pause ==
    /\ Commit(pause(Player))
    /\ last_op' = [op |-> "pause", result |-> "None"]
    /\ UNCHANGED <<wdVars, apiVars>>

Seek ==
    \E position \in ReportedPositions :
        /\ Commit(seek(Player, position))
        /\ last_op' = [op |-> "seek", result |-> "None"]
        /\ UNCHANGED <<wdVars, apiVars>>

SeekRelative ==
    \E seconds \in {-1} :
        /\ Commit(SendCommand(Player, [command |-> <<"seek", seconds, "relative">>]))
        /\ last_op' = [op |-> "seek_relative", result |-> "None"]
        /\ UNCHANGED <<wdVars, apiVars>>

SetVolume ==
    \E volume \in VolumeInputs :
        /\ Commit(set_volume(Player, volume))
        /\ last_op' = [op |-> "set_volume", volume |-> volume, result |-> "None"]
        /\ UNCHANGED <<wdVars, apiVars>>

SetGeometry ==
    \E g \in Geometries, launch \in LaunchOutcomes :
      \E posReply \in Replies(Player, ReportedPositions) :
        LET r == set_geometry(Player, g, posReply, launch) IN
        /\ Commit(r.p)
        /\ last_op' = [op |-> "set_geometry", result |-> r.result,
                        geometry |-> g, position |-> r.position,
                        played |-> r.played]
        /\ UNCHANGED <<wdVars, apiVars>>

GetStatus ==
    \E posReply \in Replies(Player, ReportedPositions),
       durReply \in Replies(Player, ReportedDurations) :
        /\ Commit(get_status(Player, posReply, durReply))
        /\ last_op' = [op |-> "get_status", result |-> "status",
                        position |-> posReply, duration |-> durReply]
        /\ UNCHANGED <<wdVars, apiVars>>

\* the player process exits on its own or is killed from outside (the
\* watchdog's pkill -9); it removes its control socket or leaves it behind
ProcessExits ==
    /\ process = "alive"
    /\ \E cleaned \in BOOLEAN :
        /\ process' = "dead"
        /\ socket_exists' = (socket_exists /\ ~cleaned)
        /\ last_op' = [op |-> "process_exits", result |-> "None"]
        /\ sent' = << >>
        /\ status_writes' = << >>
        /\ UNCHANGED <<state, geometry, orphans>>
        /\ UNCHANGED <<wdVars, apiVars>>

\* a player process that created no socket during the bounded wait creates
\* it afterwards
SocketAppearsLate ==
    /\ process = "alive"
    /\ ~socket_exists
    /\ socket_exists' = TRUE
    /\ last_op' = [op |-> "socket_appears", result |-> "None"]
    /\ sent' = << >>
    /\ status_writes' = << >>
    /\ UNCHANGED <<state, geometry, process, orphans>>
    /\ UNCHANGED <<wdVars, apiVars>>

\* __init__ (lines 18-47)
PlayerInit ==
    /\ state = [status |-> "stopped", source |-> NoSource, position |-> 0,
                duration |-> 0, volume |-> 50, loop |-> TRUE]
    /\ geometry = [x |-> 0, y |-> 0, width |-> 1920, height |-> 1080]
    /\ process = "None"
    /\ orphans = 0
    /\ socket_exists = FALSE
    /\ last_op = [op |-> "init", result |-> "None"]
    /\ sent = << >>
    /\ status_writes = << >>

\* app.run(threaded=True): every request is served on a thread of its own
Threads == {1, 2}
Idle == [pc |-> "idle"]

\* no request is being served
ApiInit == requests = [t \in Threads |-> Idle]

Init == WatchdogInit /\ PlayerInit /\ ApiInit

PlayerNext ==
    \/ Play
    \/ Stop
    \/ Pause
    \/ Seek
    \/ SeekRelative
    \/ SetVolume
    \/ SetGeometry
    \/ GetStatus
    \/ ProcessExits
    \/ SocketAppearsLate

Spec == Init /\ [][PlayerNext]_vars

WatchdogNext == BackoffWait \/ Poll

WatchdogSpec == Init /\ [][WatchdogNext]_vars

\* the loop keeps ticking: time.sleep returns and the next iteration runs
WatchdogLiveSpec == WatchdogSpec /\ WF_vars(WatchdogNext)

(***************************************************************************)
(* The composed system: the watchdog polls the supervisor over the API and *)
(* restarts through it, while the operator's requests arrive one at a time *)
(***************************************************************************)
\* kill_mpv (lines 55-64): pkill -9 mpv; a killed player process leaves its
\* control socket behind
kill_mpv(p) ==
    [p EXCEPT !.process = IF @ = "alive" THEN "dead" ELSE @,
              !.orphans = 0]

\* the payload of GET /api/status as the watchdog reads it (lines 119-129)
StatusPayload(p) ==
    Response(p.state.status, p.state.source, p.state.position,
             [loop |-> p.state.loop, volume |-> p.state.volume])

\* is_mpv_running (lines 45-53): pgrep finds a player process only when one
\* is alive; it reports none when pgrep fails
ComposedProbeOutcomes(p, resp) ==
    IF p.process = "alive" \/ p.orphans > 0
    THEN ProbeOutcomes(resp)
    ELSE {FALSE}

\* restart_stream (lines 66-88) against the supervisor: kill_mpv, then POST
\* /api/play, answered 200 when play returns True
RestartThroughApi(p, resp, launch) ==
    play(kill_mpv(p), resp.source, Some(resp.loop), Some(resp.volume), None, launch)

\* what the operator sends while a watchdog iteration is under way: the
\* watchdog is a separate process and the server handles requests at any
\* time (video_controller.py lines 361-367)
OperatorRequests == {"none", "play", "stop"}
\* where in restart_stream the operator's request is handled: between the
\* status poll and kill_mpv, or during the settle sleep between kill_mpv and
\* the POST /api/play (stream_watchdog.py lines 116-117, 55-64, 76-79)
RestartWindows == {"before_kill", "after_kill"}

\* api_play of a local file that starts (video_controller.py lines 61-84), or
\* api_stop (lines 87-94), handled by the supervisor
OperatorRequest(p, between) ==
    IF between = "play"
    THEN play(p, "a.mp4", Some(TRUE), Some(DEFAULT_VOLUME), None, "socket").p
    ELSE IF between = "stop" THEN stop(p)
    ELSE p

\* the session the watchdog's restart commands meet
SessionAtRestart(p, between, window) ==
    IF window = "before_kill"
    THEN OperatorRequest(p, between)
    ELSE OperatorRequest(kill_mpv(p), between)

\* restart_stream with an operator request handled in one of its windows
RestartInterleaved(p, resp, launch, between, window) ==
    IF between = "none" THEN RestartThroughApi(p, resp, launch)
    ELSE IF window = "before_kill"
    THEN RestartThroughApi(OperatorRequest(p, between), resp, launch)
    ELSE play(OperatorRequest(kill_mpv(p), between), resp.source,
              Some(resp.loop), Some(resp.volume), None, launch)

\* one iteration of the watchdog loop that queries the supervisor, with the
\* operator requests of the given set arriving during its restart
WatchdogIteration(arriving) ==
    /\ ~InBackoffWindow
    /\ \E answered \in BOOLEAN :
       \E ipc \in (IF answered THEN BOOLEAN ELSE {FALSE}),
          pos \in ReportedPositions, dur \in ReportedDurations :
         LET posReply == Reply(Player, ipc, pos)
             durReply == Reply(Player, ipc, dur)
             q == get_status(Player, posReply, durReply)
             resp == IF answered THEN StatusPayload(q) ELSE NoResponse
         IN \E alive \in ComposedProbeOutcomes(q, resp) :
            LET restart == IssuesRestart(resp, alive) IN
            \E launch \in (IF restart THEN LaunchOutcomes ELSE {"socket"}),
               between \in (IF restart THEN arriving ELSE {"none"}) :
            \E window \in (IF between = "none" THEN {"before_kill"}
                                               ELSE RestartWindows) :
              LET r == RestartInterleaved(q, resp, launch, between, window)
                  ok == IF restart THEN r.result = "True" ELSE TRUE
                  met == SessionAtRestart(q, between, window).state
              IN
              /\ Monitored(resp) /\ resp.status = "stopped"
                    => consecutive_failures < MaxFailures
              /\ obs' = [poll |-> resp, alive |-> alive, ok |-> ok]
              /\ onlyPlayingAlive' =
                    /\ onlyPlayingAlive
                    /\ Monitored(resp)
                    /\ resp.status = "playing"
                    /\ alive
              /\ IF resp = NoResponse THEN PollNoResponse
                 ELSE IF Monitored(resp) THEN PollMonitored(resp, alive, ok)
                 ELSE PollNotMonitored
              /\ IF ~answered
                 THEN /\ UNCHANGED <<state, geometry, process, orphans, socket_exists>>
                      /\ sent' = << >>
                      /\ status_writes' = << >>
                 ELSE IF restart THEN Commit(r.p)
                 ELSE Commit(q)
              /\ last_op' = [op |-> "watchdog_poll",
                             result |-> IF restart THEN r.result ELSE "None",
                             between |-> between,
                             window |-> window,
                             session |-> IF restart
                                         THEN [status |-> met.status,
                                               source |-> met.source]
                                         ELSE [status |-> "None",
                                               source |-> NoSource]]
              /\ UNCHANGED apiVars

\* an iteration that no operator request falls into
ComposedPoll == WatchdogIteration({"none"})

\* an iteration whose restart an operator request may fall into
InterleavedPoll == WatchdogIteration(OperatorRequests)

\* sources the operator plays in the composed system
OperatorSources == {RtspSource, "a.mp4"}

\* POST /api/play from the operator, loop and volume left at the defaults of
\* api_play
OperatorPlay ==
    \E source \in OperatorSources, launch \in LaunchOutcomes :
        LET r == play(Player, source, Some(TRUE), Some(DEFAULT_VOLUME), None, launch) IN
        /\ Commit(r.p)
        /\ last_op' = [op |-> "play", source |-> source, result |-> r.result]
        /\ UNCHANGED <<wdVars, apiVars>>

ComposedNext ==
    \/ OperatorPlay
    \/ Stop
    \/ Pause
    \/ ProcessExits
    \/ BackoffWait
    \/ ComposedPoll

ComposedSpec == Init /\ [][ComposedNext]_vars

\* the operator's requests and the watchdog's iterations overlapping in time
InterleavedNext ==
    \/ OperatorPlay
    \/ ProcessExits
    \/ BackoffWait
    \/ InterleavedPoll

InterleavedSpec == Init /\ [][InterleavedNext]_vars

(***************************************************************************)
(* Concurrent API requests: video_controller.py runs the Flask server with *)
(* threaded=True and calls the one VideoPlayer from every request thread   *)
(* without a lock, so the steps of play() and stop() of two requests       *)
(* interleave.                                                             *)
(***************************************************************************)
ConcurrentSources == {RtspSource, "a.mp4"}
ConcurrentLaunchOutcomes == {"socket", "nosocket"}

\* api_play -> play(), lines 83-93: settings stored, source resolved
RequestPlay(t) ==
    /\ requests[t] = Idle
    /\ \E source \in ConcurrentSources :
        /\ requests' = [requests EXCEPT ![t] =
                            [pc |-> "play_stop", source |-> ResolveSource(source)]]
        /\ state' = [state EXCEPT !.loop = TRUE, !.volume = DEFAULT_VOLUME]
        /\ last_op' = [op |-> "play", thread |-> t, result |-> "running"]
        /\ sent' = << >>
        /\ status_writes' = << >>
        /\ UNCHANGED <<geometry, process, orphans, socket_exists>>
        /\ UNCHANGED wdVars

\* play(), lines 95-98: stop any existing playback
PlayStopExisting(t) ==
    /\ requests[t].pc = "play_stop"
    /\ requests' = [requests EXCEPT ![t].pc = "play_spawn"]
    /\ Commit(StopExisting(Player))
    /\ last_op' = [op |-> "play", thread |-> t, result |-> "running"]
    /\ UNCHANGED wdVars

\* play(), lines 107-111: self.process = subprocess.Popen(...)
PlaySpawn(t) ==
    /\ requests[t].pc = "play_spawn"
    /\ process = "alive" => orphans < MaxOrphans
    /\ requests' = [requests EXCEPT ![t].pc = "play_wait"]
    /\ Commit(Spawn(Player))
    /\ last_op' = [op |-> "play", thread |-> t, result |-> "running"]
    /\ UNCHANGED wdVars

\* play(), lines 113-133: the wait for the control socket and the outcome
PlayFinish(t) ==
    /\ requests[t].pc = "play_wait"
    /\ \E launch \in ConcurrentLaunchOutcomes :
        LET p4 == [Player EXCEPT !.socket = @ \/ launch = "socket"]
            p5 == [p4 EXCEPT !.state.status = "playing",
                             !.state.source = requests[t].source,
                             !.writes = StatusWrites(p4, "playing", "play")]
        IN
        /\ requests' = [requests EXCEPT ![t] = Idle]
        /\ Commit(IF p4.socket THEN p5 ELSE p4)
        /\ last_op' = [op |-> "play", thread |-> t,
                       result |-> IF p4.socket THEN "True" ELSE "False"]
        /\ UNCHANGED wdVars

\* api_stop -> stop(), lines 199-204: terminate the player process
RequestStop(t) ==
    /\ requests[t] = Idle
    /\ requests' = [requests EXCEPT ![t] = [pc |-> "stop_reset"]]
    /\ process' = IF process = "alive" THEN "dead" ELSE process
    /\ last_op' = [op |-> "stop", thread |-> t, result |-> "running"]
    /\ sent' = << >>
    /\ status_writes' = << >>
    /\ UNCHANGED <<state, geometry, orphans, socket_exists>>
    /\ UNCHANGED wdVars

\* stop(), lines 208-215: reset the state, remove the socket
StopReset(t) ==
    /\ requests[t].pc = "stop_reset"
    /\ requests' = [requests EXCEPT ![t] = Idle]
    /\ state' = [state EXCEPT !.status = "stopped", !.source = NoSource,
                              !.position = 0, !.duration = 0]
    /\ status_writes' = StatusWrites(Player, "stopped", "stop")
    /\ socket_exists' = FALSE
    /\ last_op' = [op |-> "stop", thread |-> t, result |-> "None"]
    /\ sent' = << >>
    /\ UNCHANGED <<geometry, process, orphans>>
    /\ UNCHANGED wdVars

ConcurrentNext ==
    \E t \in Threads :
        \/ RequestPlay(t)
        \/ PlayStopExisting(t)
        \/ PlaySpawn(t)
        \/ PlayFinish(t)
        \/ RequestStop(t)
        \/ StopReset(t)

ConcurrentSpec == Init /\ [][ConcurrentNext]_vars

(***************************************************************************)
(* What the last iteration of the watchdog loop observed and did           *)
(***************************************************************************)
Polled == obs.poll.kind # "skipped"
ObservedStatus == obs.poll.kind = "status"
ObservedMonitored == ObservedStatus /\ obs.poll.source = RtspSource
ObservedNotMonitored == ObservedStatus /\ obs.poll.source \in NotMonitoredSources
RestartIssued == wd_cmds # << >>
KillsIssued == Len(SelectSeq(wd_cmds, LAMBDA c : c.op = "kill"))
PlaysIssued == Len(SelectSeq(wd_cmds, LAMBDA c : c.op = "play"))

(***************************************************************************)
(* Claims about the watchdog                                               *)
(***************************************************************************)

\* C1 Watchdog backoff: a restart trigger that finds restart_attempts at the
\* cap opens a cooldown window of BACKOFF_TIME seconds and issues no restart;
\* every iteration that starts less than BACKOFF_TIME seconds after the entry
\* issues no command and queries no status; the first iteration that starts
\* BACKOFF_TIME seconds or more after the entry leaves backoff and queries
\* the status again.
C1_Backoff ==
    [][ /\ (~in_backoff /\ restart_attempts >= MAX_RESTART_ATTEMPTS /\ wd_reason' # "")
            => /\ in_backoff'
               /\ backoff_until' = Some(Clock + BACKOFF_TIME)
               /\ sinceBackoffEntry' = 0
               /\ wd_cmds' = << >>
        /\ (in_backoff /\ sinceBackoffEntry < BACKOFF_TIME)
            => /\ in_backoff'
               /\ ~Polled'
               /\ wd_cmds' = << >>
               /\ restart_attempts' = restart_attempts
        /\ (in_backoff /\ sinceBackoffEntry >= BACKOFF_TIME)
            => /\ ~in_backoff'
               /\ Polled'
      ]_vars

\* a state after a cooldown window was entered, waited out and left, the
\* iteration that left it having queried the status
C1_Witness ==
    /\ ~in_backoff
    /\ backoff_until # None
    /\ ObservedStatus
    /\ restartsNoProgress = 0
    /\ wd_reason = ""

\* C2 Bounded retry: without a healthy-progress observation, at most
\* MAX_RESTART_ATTEMPTS restart commands are issued before a cooldown window
\* is entered, and at most that many between two cooldown windows.
C2_BoundedRetry == restartsNoProgress <= MAX_RESTART_ATTEMPTS

\* three consecutive polls observed 'stopped', counted from
\* consecutive_failures = 0; the next poll observes 'playing' at a position
\* other than the last seen one
ThirdStoppedPoll == stoppedRun = 3
ObservesPlayingMoved ==
    /\ ObservedMonitored'
    /\ obs'.poll.status = "playing"
    /\ Some(obs'.poll.position) # last_position

\* C3 (as claimed) Watchdog reported-stopped: three consecutive 'stopped'
\* polls from consecutive_failures = 0 issue exactly one restart command, and
\* the next poll observing 'playing' at a different position ends with
\* consecutive_failures = 0.
C3_Original ==
    [][ /\ ThirdStoppedPoll' => stoppedRunRestarts' = 1
        /\ (ThirdStoppedPoll /\ ObservesPlayingMoved) => consecutive_failures' = 0
      ]_vars

\* C3 (amended) the first of the three polls issues no restart, the second
\* issues one, the third issues another exactly when the second poll's
\* restart command failed; the next poll observing 'playing' at a different
\* position with the player process alive ends with consecutive_failures = 0.
C3_ReportedStopped ==
    [][ /\ stoppedRun' = 1 => (stoppedRunRestarts' = 0 /\ ~RestartIssued')
        /\ stoppedRun' = 2 => (stoppedRunRestarts' = 1 /\ RestartIssued')
        /\ ThirdStoppedPoll' =>
              /\ stoppedRun = 2
              /\ stoppedRunRestarts' = IF obs.ok THEN 1 ELSE 2
              /\ RestartIssued' = ~obs.ok
        /\ (ThirdStoppedPoll /\ ObservesPlayingMoved /\ obs'.alive)
              => consecutive_failures' = 0
      ]_vars

\* the third 'stopped' poll, one restart issued over the three
C3_Witness ==
    /\ ThirdStoppedPoll
    /\ stoppedRunRestarts = 1
    /\ ObservedMonitored
    /\ obs.poll.status = "stopped"

\* a poll observing the monitored source 'playing', process alive
ObservesPlayingAlive ==
    /\ ObservedMonitored'
    /\ obs'.poll.status = "playing"
    /\ obs'.alive
FrozenRestart == wd_reason = "frozen" /\ RestartIssued

\* C4 (as claimed) Freeze detection: when all polls observe 'playing' with
\* the process alive, a position that stays constant triggers exactly one
\* 'frozen' restart over the span: no two polls of the span both issue one.
C4_Original ==
    [][ (/\ onlyPlayingAlive'
         /\ FrozenRestart
         /\ ObservesPlayingAlive
         /\ obs'.poll.position = obs.poll.position)
        => ~FrozenRestart'
      ]_vars

\* C4 (amended) for polls observing 'playing' with the process alive: while
\* the position equals the last seen one and less than FREEZE_THRESHOLD
\* seconds passed since it was first seen, no restart is issued; on the poll
\* at which FREEZE_THRESHOLD seconds or more have passed, a 'frozen' trigger
\* fires, which issues exactly one restart (one kill, one play) when
\* restart_attempts is below the cap and opens the cooldown window
\* otherwise; a position that differs from the last seen one by 0.1 s or
\* more triggers no restart.
C4_FreezeDetection ==
    [][ ObservesPlayingAlive =>
          /\ (/\ last_position = Some(obs'.poll.position)
              /\ Clock - Val(last_position_time) < FREEZE_THRESHOLD)
             => (~RestartIssued' /\ wd_reason' = "")
          /\ (/\ last_position = Some(obs'.poll.position)
              /\ Clock - Val(last_position_time) >= FREEZE_THRESHOLD)
             => /\ wd_reason' = "frozen"
                /\ IF restart_attempts < MAX_RESTART_ATTEMPTS \/ in_backoff
                   THEN KillsIssued' = 1 /\ PlaysIssued' = 1
                   ELSE ~RestartIssued' /\ in_backoff'
          /\ (\/ last_position = None
              \/ /\ last_position # None
                 /\ Abs(obs'.poll.position - Val(last_position)) >= FREEZE_EPSILON)
             => (~RestartIssued' /\ wd_reason' = "")
      ]_vars

\* a 'frozen' restart was issued for a position seen unchanged
C4_Witness ==
    /\ FrozenRestart
    /\ ObservedMonitored
    /\ obs.poll.status = "playing"
    /\ obs.alive
    /\ restart_attempts = 1

\* C5 Non-monitored sources never trigger a restart: an iteration whose
\* status response carries a source that does not start with rtsp:// issues
\* no kill and no play, whatever the status, and resets last_source, the
\* position tracking, consecutive_failures and restart_attempts.
C5_NotMonitored ==
    ObservedNotMonitored =>
        /\ wd_cmds = << >>
        /\ wd_reason = ""
        /\ last_source = NoSource
        /\ last_position = None
        /\ last_position_time = None
        /\ consecutive_failures = 0
        /\ restart_attempts = 0

\* a local file reported 'stopped' right after a restart of a stream
C5_Witness ==
    /\ ObservedNotMonitored
    /\ obs.poll.status = "stopped"
    /\ obs.poll.source = LocalSource
    /\ last_volume = 80

(***************************************************************************)
(* Claims about the supervisor                                             *)
(***************************************************************************)

\* C6 PlaybackState invariant: after any sequence of completed supervisor
\* operations, failing ones included, state['source'] is non-null if and
\* only if state['status'] is not 'stopped'.
C6_SourceIffNotStopped ==
    (state.source # NoSource) <=> (state.status # "stopped")

\* a play that failed to launch after it had stopped a running session
C6_Witness ==
    /\ last_op.op = "play"
    /\ last_op.result = "False"
    /\ process = "alive"
    /\ state.status = "stopped"
    /\ state.source = NoSource

\* player processes spawned by the supervisor that are alive
AliveProcesses == orphans + (IF process = "alive" THEN 1 ELSE 0)

\* C7 Single process: after any sequence of supervisor operations invoked
\* one after the other, at most one player process spawned by the supervisor
\* is alive.
C7_SingleProcess == AliveProcesses <= 1

\* a geometry change restarted the player process of a paused session
C7_Witness ==
    /\ last_op.op = "set_geometry"
    /\ state.status = "paused"
    /\ process = "alive"
    /\ geometry.x = 100

\* C8 Launch failure: whenever play returns failure because the control
\* socket did not appear, the status is 'stopped' and the source null.
C8_LaunchFailureStopped ==
    (last_op.op = "play" /\ last_op.result = "False")
        => (state.status = "stopped" /\ state.source = NoSource)

\* the source a successful play is to store, for each source of PlaySources
ExpectedSource(source) ==
    CASE source = "a.mp4" -> "/opt/rpi-video-player/data/videos/a.mp4"
      [] source = "/media/usb/b.mp4" -> "/media/usb/b.mp4"
      [] source = "rtsp://cam/1" -> "rtsp://cam/1"
      [] source = "https://host/v.mp4" -> "https://host/v.mp4"

\* C9 After play(source) returns success, the status is 'playing' and
\* state['source'] is the absolute path of a local source resolved against
\* the media directory, or the unchanged URI of a remote source.
C9_PlaySuccess ==
    (last_op.op = "play" /\ last_op.result = "True")
        => /\ state.status = "playing"
           /\ state.source = ExpectedSource(last_op.source)

\* a local file name was played
C9_Witness ==
    /\ last_op.op = "play"
    /\ last_op.result = "True"
    /\ last_op.source = "a.mp4"
    /\ state.source = LocalSource

\* C10 stop is idempotent and total: stop ends with status 'stopped',
\* source null, position 0, duration 0 and no control socket file, leaves
\* volume, loop and geometry unchanged, and a second stop changes nothing.
C10_StopIdempotent ==
    [][ last_op'.op = "stop" =>
          /\ state'.status = "stopped"
          /\ state'.source = NoSource
          /\ state'.position = 0
          /\ state'.duration = 0
          /\ ~socket_exists'
          /\ process' # "alive"
          /\ last_op'.result = "None"
          /\ state'.volume = state.volume
          /\ state'.loop = state.loop
          /\ geometry' = geometry
          /\ last_op.op = "stop" =>
                <<state, geometry, process, orphans, socket_exists>>'
                    = <<state, geometry, process, orphans, socket_exists>>
      ]_vars

\* stop ended a session that had a live process, a socket and settings other
\* than the initial ones
C10_Witness ==
    /\ last_op.op = "stop"
    /\ process = "dead"
    /\ state.volume = 101
    /\ ~state.loop
    /\ geometry.x = 100

\* set_geometry was called while the status was 'playing' or 'paused'
GeometryRestart ==
    /\ last_op'.op = "set_geometry"
    /\ state.status \in {"playing", "paused"}
\* the seek commands the last operation sent
SeeksSent == SelectSeq(sent, LAMBDA c : c.command[1] = "seek")

\* C11 (as claimed) set_geometry called while the status is 'playing' or
\* 'paused' ends with the same source, loop, volume and status as before the
\* call and with the new geometry, and the seek sent after the restart
\* targets the position captured before the stop.
C11_Original ==
    [][ GeometryRestart =>
          /\ geometry' = last_op'.geometry
          /\ state'.source = state.source
          /\ state'.loop = state.loop
          /\ state'.volume = state.volume
          /\ state'.status = state.status
          /\ \A i \in 1..Len(SeeksSent') :
                SeeksSent'[i].command = <<"seek", Val(last_op'.position), "absolute">>
      ]_vars

\* C11 (amended) set_geometry called while the status is 'playing' or
\* 'paused' ends with the new geometry and the same loop and volume; when
\* the player process it relaunches creates its control socket, it ends with
\* the same source and status as before the call, having sent exactly one
\* seek, to the position captured before the stop, when that position is
\* above 0 and none otherwise; when the relaunch fails it ends with status
\* 'stopped' and source null, having sent no seek.
C11_SetGeometry ==
    [][ GeometryRestart =>
          /\ geometry' = last_op'.geometry
          /\ state'.loop = state.loop
          /\ state'.volume = state.volume
          /\ last_op'.played \in {"True", "False"}
          /\ IF last_op'.played = "True"
             THEN /\ state'.source = state.source
                  /\ state'.status = state.status
                  /\ SeeksSent' =
                        IF Val(last_op'.position) > 0
                        THEN << [command |->
                                  <<"seek", Val(last_op'.position), "absolute">>] >>
                        ELSE << >>
             ELSE /\ state'.source = NoSource
                  /\ state'.status = "stopped"
                  /\ SeeksSent' = << >>
      ]_vars

\* a geometry change restarted a paused session at the captured position
C11_Witness ==
    /\ last_op.op = "set_geometry"
    /\ last_op.played = "True"
    /\ last_op.position = Some(3)
    /\ state.status = "paused"
    /\ Len(SeeksSent) = 1
    /\ geometry.x = 100

\* the changes of state['status'] of the state machine: stopped -> playing
\* by play, playing <-> paused by pause, playing|paused -> stopped by stop
\* (called by the stop operation, by play or by set_geometry)
StateMachineChange(w) ==
    \/ w.from = "stopped" /\ w.to = "playing" /\ w.by = "play"
    \/ w.from = "playing" /\ w.to = "paused" /\ w.by = "pause"
    \/ w.from = "paused" /\ w.to = "playing" /\ w.by = "pause"
    \/ w.from \in {"playing", "paused"} /\ w.to = "stopped" /\ w.by = "stop"

\* C12 State machine: every change of state['status'] made by a supervisor
\* operation is stopped -> playing (successful play), playing <-> paused
\* (pause toggle) or playing|paused -> stopped (stop, geometry teardown);
\* never stopped -> paused; pause called while stopped changes nothing and
\* sends no command.
C12_StateMachine ==
    [][ /\ \A i \in 1..Len(status_writes') : StateMachineChange(status_writes'[i])
        /\ (last_op'.op = "pause" /\ state.status = "stopped") =>
              /\ <<state, geometry, process, orphans, socket_exists>>'
                    = <<state, geometry, process, orphans, socket_exists>>
              /\ sent' = << >>
      ]_vars

\* C13 Volume invariant: after any sequence of supervisor operations with
\* any integer arguments, play(source, volume=v) as forwarded by /api/play
\* included, state['volume'] is in [0, 100].
C13_VolumeInRange == state.volume \in 0..100

\* v brought into [0, 100]
Clamped(v) == IF v < 0 THEN 0 ELSE IF v > 100 THEN 100 ELSE v

\* C14 set_volume(v) leaves state['volume'] = max(0, min(100, v)) and hands
\* that clamped value (not v) to the channel in the volume property-set
\* command, in every status and whether or not the control socket exists;
\* nothing else of the state changes.
C14_SetVolumeClamps ==
    [][ last_op'.op = "set_volume" =>
          /\ state'.volume = Clamped(last_op'.volume)
          /\ sent' = << [command |->
                          <<"set_property", "volume", Clamped(last_op'.volume)>>] >>
          /\ state' = [state EXCEPT !.volume = Clamped(last_op'.volume)]
          /\ <<geometry, process, orphans, socket_exists>>'
                = <<geometry, process, orphans, socket_exists>>
      ]_vars

\* set_volume(101) while stopped, with no control socket to send to
C14_Witness ==
    /\ last_op.op = "set_volume"
    /\ last_op.volume = 101
    /\ state.volume = 100
    /\ state.status = "stopped"
    /\ ~socket_exists

\* C17 get_status while the status is 'playing' or 'paused': when the
\* channel query for the time position (the duration) fails,
\* state['position'] (state['duration']) keeps the value cached before the
\* call; get_status changes neither status, source, volume, loop nor
\* geometry.
C17_GetStatusKeepsCache ==
    [][ (last_op'.op = "get_status" /\ state.status \in {"playing", "paused"}) =>
          /\ last_op'.position = None => state'.position = state.position
          /\ last_op'.duration = None => state'.duration = state.duration
          /\ state'.status = state.status
          /\ state'.source = state.source
          /\ state'.volume = state.volume
          /\ state'.loop = state.loop
          /\ geometry' = geometry
      ]_vars

(***************************************************************************)
(* Further claims about the watchdog                                       *)
(***************************************************************************)
\* a poll observing the monitored source 'playing', the liveness probe
\* reporting the player process absent
ObservesPlayingDead ==
    /\ ObservedMonitored'
    /\ obs'.poll.status = "playing"
    /\ ~obs'.alive
\* the iteration leaves consecutive_failures and the position tracking as
\* they were (the timestamp re-expressed against the next iteration's clock)
TrackingKept ==
    /\ consecutive_failures' = consecutive_failures
    /\ last_position' = last_position
    /\ last_position_time' = ElapsePositionTime(last_position_time, wd_elapsed')
\* at most one restart command per iteration, and never a 'frozen' trigger
\* unless the status is 'playing' and the process alive, never any trigger
\* but 'stopped' when the status is 'stopped', none when it is 'paused'
FirstMatchWins ==
    /\ KillsIssued' <= 1
    /\ PlaysIssued' <= 1
    /\ wd_reason' = "frozen" => ObservesPlayingAlive
    /\ wd_reason' = "died" => ObservesPlayingDead
    /\ wd_reason' = "stopped" => (ObservedMonitored' /\ obs'.poll.status = "stopped")

\* C18 (as claimed) Failure classification is first-match-wins: status
\* 'playing' with the process absent triggers a restart on that same tick
\* regardless of consecutive_failures and without changing
\* consecutive_failures or the position tracking; the frozen check applies
\* only when the status is 'playing' and the process alive; at most one
\* restart command per tick.
C18_Original ==
    [][ /\ ObservesPlayingDead =>
              /\ wd_reason' = "died"
              /\ RestartIssued'
              /\ TrackingKept
        /\ FirstMatchWins
      ]_vars

\* C18 (amended) status 'playing' with the process absent raises the 'died'
\* trigger on that same tick whatever consecutive_failures is: one restart
\* command is issued unless restart_attempts is at the cap, when the cooldown
\* window opens instead; consecutive_failures and the position tracking are
\* as they were at the end of the tick unless the restart command succeeded,
\* which resets consecutive_failures and clears the tracking; the frozen
\* check applies only when the status is 'playing' and the process alive; at
\* most one restart command per tick.
C18_FirstMatchWins ==
    [][ /\ ObservesPlayingDead =>
              /\ wd_reason' = "died"
              /\ IF restart_attempts < MAX_RESTART_ATTEMPTS \/ in_backoff
                 THEN /\ KillsIssued' = 1
                      /\ PlaysIssued' = 1
                      /\ IF obs'.ok
                         THEN /\ consecutive_failures' = 0
                              /\ last_position' = None
                              /\ last_position_time' = None
                         ELSE TrackingKept
                 ELSE /\ ~RestartIssued'
                      /\ in_backoff'
                      /\ TrackingKept
        /\ FirstMatchWins
      ]_vars

\* a 'died' restart that failed, issued with consecutive_failures at 1 and a
\* position tracked
C18_Witness ==
    /\ wd_reason = "died"
    /\ RestartIssued
    /\ ~obs.ok
    /\ consecutive_failures = 1
    /\ last_position # None

\* C19 Backoff is self-healing: provided the loop keeps ticking, a watchdog
\* in backoff eventually leaves it, in_backoff false and restart_attempts
\* reset to 0 (1 when the iteration that leaves goes on to issue a restart),
\* and queries the status again; it never stays in backoff forever and
\* never stops polling.
C19_BackoffSelfHealing ==
    /\ in_backoff ~> (/\ ~in_backoff
                      /\ Polled
                      /\ restart_attempts = IF RestartIssued THEN 1 ELSE 0)
    /\ []<>Polled

\* the iteration that left the cooldown window went on to issue a restart
C19_Witness ==
    /\ ~in_backoff
    /\ backoff_until = Some(Clock)
    /\ ObservedMonitored
    /\ RestartIssued
    /\ restart_attempts = 1
    /\ restartsNoProgress = 1

\* C20 Restart step ordering: every watchdog restart increments
\* restart_attempts (from 0 when the iteration left the cooldown window),
\* force-kills the player processes and then issues exactly one play command
\* carrying the source, loop and volume of the status response observed on
\* that same tick, an rtsp:// source; when the play command succeeds,
\* consecutive_failures is 0 and the position tracking cleared; when it
\* fails, the restart step leaves consecutive_failures and the position
\* tracking as the classification of that tick left them (a 'stopped'
\* observation counted, a new position recorded).
C20_RestartSteps ==
    [][ RestartIssued' =>
          /\ restart_attempts' = (IF in_backoff THEN 0 ELSE restart_attempts) + 1
          /\ ObservedStatus'
          /\ SubSeq(obs'.poll.source, 1, 7) = "rtsp://"
          /\ wd_cmds' = << [op |-> "kill"],
                            [op |-> "play", source |-> obs'.poll.source,
                             loop |-> obs'.poll.loop, volume |-> obs'.poll.volume] >>
          /\ obs'.ok =>
                /\ consecutive_failures' = 0
                /\ last_position' = None
                /\ last_position_time' = None
          /\ (~obs'.ok /\ wd_reason' = "stopped") =>
                /\ consecutive_failures' = consecutive_failures + 1
                /\ last_position' = last_position
                /\ last_position_time' =
                      ElapsePositionTime(last_position_time, wd_elapsed')
          /\ (~obs'.ok /\ wd_reason' = "died") => TrackingKept
          /\ (~obs'.ok /\ wd_reason' = "frozen") =>
                IF Some(obs'.poll.position) = last_position
                THEN TrackingKept
                ELSE /\ consecutive_failures' = 0
                     /\ last_position' = Some(obs'.poll.position)
                     /\ last_position_time' =
                           ElapsePositionTime(Some(Clock), wd_elapsed')
      ]_vars

\* a second restart in a row, its play command carrying the loop and volume
\* just observed, failed
C20_Witness ==
    /\ RestartIssued
    /\ ~obs.ok
    /\ obs.poll.volume = 80
    /\ wd_cmds[2].volume = 80
    /\ restart_attempts = 2
    /\ last_position = Some(1)

(***************************************************************************)
(* Claims about the composed system                                        *)
(***************************************************************************)
\* the watchdog, having last seen a monitored source, gets a status response
\* from a supervisor whose session has become stopped
PollsStoppedSession ==
    /\ last_op'.op = "watchdog_poll"
    /\ ObservedStatus'
    /\ is_rtsp_stream(last_source)
    /\ state.status = "stopped"

\* C16 Reported-stopped in the composed system: when the watchdog polls the
\* supervisor's get_status payload and a monitored rtsp:// session that was
\* active has become stopped, each such poll increments
\* consecutive_failures, and a restart of that source is triggered once two
\* consecutive stopped observations have been made.
C16_ComposedReportedStopped ==
    [][ PollsStoppedSession =>
          IF consecutive_failures + 1 >= FAILURE_THRESHOLD
          THEN /\ wd_reason' = "stopped"
               /\ RestartIssued' \/ in_backoff'
          ELSE /\ consecutive_failures' = consecutive_failures + 1
               /\ last_source' = last_source
      ]_vars

\* in the composed system the watchdog never takes the reported-stopped branch
C16_StoppedNeverReported ==
    /\ wd_reason # "stopped"
    /\ stoppedRun = 0
    /\ consecutive_failures = 0

(***************************************************************************)
(* Claims about concurrent requests                                        *)
(***************************************************************************)
\* the requests that are executing a mutating supervisor operation
Executing == {t \in Threads : requests[t] # Idle}

\* C15 Serialization: under concurrent API requests as the API layer
\* dispatches them, at most one mutating supervisor operation is executing
\* at any time, and no interleaving of two requests leaves two live player
\* processes.
C15_Serialization ==
    /\ Cardinality(Executing) <= 1
    /\ AliveProcesses <= 1

\* the consequence alone: two requests never leave two live player processes
C15_OnePlayerProcess == AliveProcesses <= 1

(***************************************************************************)
(* Recovery, counters and frame conditions                                 *)
(***************************************************************************)
\* C21 Recovery reset: for a monitored source, the recovery branch resets
\* restart_attempts to 0 only on a tick that observes healthy progress
\* (status 'playing', process alive, position other than the last seen
\* one); a tick that observes 'stopped' below the failure threshold,
\* 'paused', or 'playing' at the last seen position below the freeze
\* threshold leaves restart_attempts unchanged.
C21_RecoveryReset ==
    [][ (/\ ObservedMonitored'
         /\ ~in_backoff
         /\ ~in_backoff'
         /\ ~RestartIssued'
         /\ restart_attempts' # restart_attempts)
        => (ObservesPlayingMoved /\ obs'.alive)
      ]_vars

\* C26 Watchdog counter invariant: 0 <= restart_attempts <=
\* MAX_RESTART_ATTEMPTS and consecutive_failures >= 0 in every reachable
\* state; whenever in_backoff is true, backoff_until is set and
\* restart_attempts = 0; a restart command is issued only on a tick where
\* restart_attempts was below MAX_RESTART_ATTEMPTS before the increment.
C26_CounterInvariant ==
    /\ [](/\ restart_attempts \in 0..MAX_RESTART_ATTEMPTS
          /\ consecutive_failures >= 0
          /\ in_backoff => (backoff_until # None /\ restart_attempts = 0))
    /\ [][ RestartIssued' =>
              /\ restart_attempts' - 1 < MAX_RESTART_ATTEMPTS
              /\ restart_attempts' - 1 =
                    IF in_backoff THEN 0 ELSE restart_attempts
          ]_vars

\* the third restart in a row was issued, restart_attempts is at the cap
C26_Witness ==
    /\ restart_attempts = MAX_RESTART_ATTEMPTS
    /\ RestartIssued
    /\ restartsNoProgress = 3
    /\ ~in_backoff

\* C23 set_geometry replaces the stored geometry with the given integers in
\* every status; when the status is 'stopped' it changes nothing else: no
\* process is spawned or stopped, no channel command is sent and
\* PlaybackState is unchanged.
C23_SetGeometryStopped ==
    [][ last_op'.op = "set_geometry" =>
          /\ geometry' = last_op'.geometry
          /\ state.status = "stopped" =>
                /\ state' = state
                /\ process' = process
                /\ orphans' = orphans
                /\ socket_exists' = socket_exists
                /\ sent' = << >>
                /\ status_writes' = << >>
      ]_vars

\* the geometry was replaced while stopped, next to a player process that
\* failed to launch and is still running
C23_Witness ==
    /\ last_op.op = "set_geometry"
    /\ last_op.played = "None"
    /\ state.status = "stopped"
    /\ geometry.x = 100
    /\ process = "alive"

\* C27 play of a local source that does not exist in the media directory
\* raises NotFound and leaves the session untouched: status, source,
\* position, duration, volume, loop, geometry and the running player
\* process are exactly as before the call.
C27_NotFoundUntouched ==
    [][ (last_op'.op = "play" /\ last_op'.result = "FileNotFoundError") =>
          /\ state' = state
          /\ geometry' = geometry
          /\ process' = process
          /\ orphans' = orphans
          /\ socket_exists' = socket_exists
      ]_vars

(***************************************************************************)
(* Freeze detection over spans and gaps                                    *)
(***************************************************************************)
\* C22 Freeze epsilon: for a monitored source observed 'playing' with the
\* process alive on every poll, when the reported position has advanced by
\* less than 0.1 s in total across a span of polls lasting at least
\* FREEZE_THRESHOLD seconds, the 'frozen' trigger fires, also when the
\* position differs slightly between consecutive polls.
C22_FreezeEpsilon ==
    [][ (/\ ObservesPlayingAlive
         /\ nearSpan # None
         /\ SpanWith(obs'.poll.position)[3] >= FREEZE_THRESHOLD)
        => wd_reason' = "frozen"
      ]_vars

\* C28 No false freeze across gaps: a monitored session that was observed
\* 'paused', or was not polled because of a cooldown window or a failed
\* status query, for FREEZE_THRESHOLD seconds or more and is then first
\* observed 'playing' at the previously seen position is not classified
\* frozen on that tick.
C28_NoFalseFreeze ==
    [][ (ObservesPlayingAlive /\ gapTime >= FREEZE_THRESHOLD)
        => wd_reason' # "frozen"
      ]_vars

(***************************************************************************)
(* The control socket across player processes                              *)
(***************************************************************************)
\* play got as far as spawning a player process
PlaySpawned ==
    /\ last_op'.op = "play"
    /\ last_op'.result \in {"True", "False"}
\* a control-socket file is there when play spawns: one that exists before
\* the call and is not removed by the stop() of a live process
SocketAtSpawn == socket_exists /\ process # "alive"

\* C24 Socket freshness: whenever play spawns a new player process, no
\* control-socket file left by an earlier process exists at spawn time, and
\* play returns success only if the newly spawned process created the
\* control socket, also when the earlier process exited on its own or was
\* force-killed rather than stopped by the supervisor.
C24_SocketFreshness ==
    [][ PlaySpawned =>
          /\ ~SocketAtSpawn
          /\ last_op'.result = "True" => last_op'.launch = "socket"
      ]_vars

(***************************************************************************)
(* Operator requests during a watchdog restart                             *)
(***************************************************************************)
\* C25 Watchdog/operator interleaving: a watchdog restart (force-kill, then
\* play of the source it observed) never kills or replaces a session whose
\* source differs from the one the watchdog observed failing: when an
\* operator request changes the source or stops playback between the status
\* poll and the restart commands, the operator's session is what remains.
C25_OperatorSessionRemains ==
    [][ ( /\ last_op'.op = "watchdog_poll"
          /\ RestartIssued'
          /\ last_op'.session.source # obs'.poll.source ) =>
          /\ state'.source = last_op'.session.source
          /\ state'.status = last_op'.session.status
          /\ process' = "alive" <=> last_op'.session.status # "stopped"
      ]_vars

====
